---- MODULE Spec2Model ----
(***************************************************************************)
(* Model of the xLights Scheduler integration core:                        *)
(*   - XScheduleClient (client.py): login handshake, query/command with    *)
(*     one retry on "not logged in", driven by concurrent asyncio tasks;   *)
(*   - XScheduleCoordinator (coordinator.py): the poll cycle that derives  *)
(*     edge-triggered events from consecutive status payloads.             *)
(* The xSchedule server is the environment: it keeps one session for the   *)
(* client, keyed on the IP it sees the client as.                          *)
(***************************************************************************)
EXTENDS Integers, Sequences, FiniteSets, TLC

None == "None"
NOT_LOGGED_IN == "not logged in"

\* ------------------------------------------------------------------ bounds
NumTasks == 2
MaxDrops == 1
MaxIpChanges == 1
MaxTime == 2
Margin == 2

Tasks == 1..NumTasks
IPs == {"10.0.0.1", "10.0.0.2"}
ServerPassword == "secret"
Passwords == {"", "secret", "wrong"}
RealResults == {"ok", "failed"}

VARIABLES
    password,        \* XScheduleClient._password
    logged_in,       \* XScheduleClient._logged_in
    server_seen_ip,  \* XScheduleClient._server_seen_ip
    lock,            \* XScheduleClient._lock: 0 when free, else the holding task
    playlists,       \* XScheduleClient._playlists
    steps_cache,     \* XScheduleClient._steps_cache (set of cached keys)
    task,            \* one record per asyncio task calling into the client
    srvSession,      \* server: the client's IP is logged in
    srvIp,           \* server: the IP it observes the client as
    drops,           \* number of session drops so far
    ipChanges,       \* number of observed-IP changes so far
    \* XScheduleCoordinator
    last_playlists,      \* _last_playlists: Unset or Some(list)
    last_playlists_ts,   \* _last_playlists_ts: Unset or Some(time)
    last_schedule_id,    \* _last_schedule_id
    last_version,        \* _last_version
    last_status,         \* _last_status
    last_playlist,       \* _last_playlist
    last_playlist_id,    \* _last_playlist_id
    last_step,           \* _last_step
    last_output,         \* _last_output: None, "True" or "False"
    last_playlist_loop,  \* _last_playlist_loop: None, "True" or "False"
    update_interval,     \* DataUpdateCoordinator.update_interval, seconds
    data,                \* DataUpdateCoordinator.data: Unset or Some(snapshot)
    last_update_success, \* DataUpdateCoordinator.last_update_success
    events,              \* what the latest cycle fired on hass.bus, in order
    status_result,       \* how the latest cycle's status fetch ended
    list_request,        \* what the latest cycle did with client.get_playlists()
    next_request,        \* how the latest cycle's next-scheduled query ended
    now,                 \* dt_util.utcnow(), seconds
    pending,             \* what _async_update_data returned, not yet in data
    sent                 \* the latest request a wrapper or a set-output handler
                         \* handed to command(); command None: it sent nothing

clientVars == <<password, logged_in, server_seen_ip, lock, playlists, steps_cache, task>>
serverVars == <<srvSession, srvIp, drops, ipChanges>>
edgeVars == <<last_schedule_id, last_version, last_status, last_playlist,
              last_playlist_id, last_step, last_output, last_playlist_loop>>
cacheVars == <<last_playlists, last_playlists_ts>>
coordVars == <<edgeVars, cacheVars, update_interval, data, last_update_success,
               events, status_result, list_request, next_request, now, pending>>
vars == <<clientVars, serverVars, coordVars, sent>>

LoginWait == {"cached_wait", "hint_wait", "hinted_wait"}
DataOps == {"query", "command", "get_playlists", "get_steps"}

IdleTask ==
    [pc |-> "idle", op |-> None, phase |-> None, cred |-> <<>>, js |-> None,
     result |-> None, dataReqs |-> 0, firstRes |-> None, loginReqs |-> 0,
     hadIp |-> None, hint |-> "unset", sawOk |-> FALSE, loginRet |-> None]

\* hashlib.md5(f"{ip}{password}"): a credential is determined by the pair.
Md5(ip, pw) == <<ip, pw>>

\* The literal credential "bad" of _get_hinted_ip: no hash of any pair.
BadCredential == <<"bad">>

\* Python's True/False where the value may also be None.
BoolStr(b) == IF b THEN "True" ELSE "False"

\* ------------------------------------------------------------------ server
\* /xScheduleLogin: "ok" only for the credential of the IP the server sees.
ServerLoginResult(cred) ==
    IF cred = Md5(srvIp, ServerPassword) THEN "ok" ELSE "failed"

\* /xScheduleQuery and /xScheduleCommand: a real result only within a session.
ServerDataResults ==
    IF srvSession THEN RealResults ELSE {NOT_LOGGED_IN}

\* ------------------------------------------------------------------ client
\* A variant that never logs in before a request.
EnsureLoginNeeded_Never(pw, flag) == FALSE

\* A variant that forgets the "no password configured" early return.
EnsureLoginNeeded_NoPasswordCheck(pw, flag) == ~flag

\* _ensure_login: login is needed with a password and no session flag.
EnsureLoginNeeded(pw, flag) ==
    /\ pw # ""
    /\ ~flag

\* A variant without mutual exclusion.
LockFree_Always == TRUE

\* async with self._lock: the lock can be taken when nobody holds it.
LockFree == lock = 0

\* if self._server_seen_ip: (async_login)
HasSeenIp(ip) == ip # None

\* A variant that gives up after the hint fetch.
HintUsable_Never(ip) == FALSE

\* if hinted_ip: (async_login)
HintUsable(ip) == ip # None

\* A variant that keeps the cached IP and drops the hint.
StoreHintedIp_KeepCached(cached, hinted_ip) == cached

\* self._server_seen_ip = hinted_ip (async_login)
StoreHintedIp(cached, hinted_ip) == hinted_ip

\* A variant that takes any decoded reply for a success.
LoginAccepted_AnyReply(js) == js # "error"

\* if js.get("result") == "ok": (_login_with_credential)
LoginAccepted(js) == js = "ok"

\* A variant that retries on every result other than "ok".
IsNotLoggedIn_AnyFailure(js) == js # "ok"

\* if js.get("result") == "not logged in": (query / command)
IsNotLoggedIn(js) == js = NOT_LOGGED_IN

\* A variant that leaves the session flag as it was.
MarkSessionLost_Keep(flag) == flag

\* self._logged_in = False (query / command, on "not logged in")
MarkSessionLost(flag) == FALSE

\* The first request of async_login, sent while holding the lock. hadIp
\* records whether an observed IP was cached when the login began.
SendFirstLogin(r) ==
    LET r1 == [r EXCEPT !.loginReqs = 1,
                        !.hadIp = IF server_seen_ip # None THEN "yes" ELSE "no"]
    IN
    IF HasSeenIp(server_seen_ip)
    THEN [r1 EXCEPT !.pc = "cached_wait", !.cred = Md5(server_seen_ip, password)]
    ELSE [r1 EXCEPT !.pc = "hint_wait", !.cred = BadCredential]

\* async_login with a password: take the lock or wait for it.
EnterLogin(t, r) ==
    IF LockFree
    THEN /\ lock' = t
         /\ task' = [task EXCEPT ![t] = SendFirstLogin(r)]
    ELSE /\ lock' = lock
         /\ task' = [task EXCEPT ![t] = [r EXCEPT !.pc = "lock_wait"]]

\* async_login returns ok to its caller.
AfterLogin(r, ok) ==
    [r EXCEPT !.pc = "login_ret", !.loginRet = BoolStr(ok), !.cred = <<>>]

\* The caller's continuation after async_login returned, up to its next
\* await: it touches nothing but the task's own frame. _ensure_login
\* ignores the returned value, so query() and command() send their request
\* whatever the login's outcome.
Continuation(r) ==
    LET r1 == [r EXCEPT !.cred = <<>>, !.loginReqs = 0, !.hadIp = None,
                        !.hint = "unset", !.sawOk = FALSE, !.loginRet = None]
    IN
    CASE r.phase = "direct" -> [r1 EXCEPT !.pc = "done", !.result = r.loginRet]
      [] r.phase = "pre"    -> [r1 EXCEPT !.pc = "data_wait", !.dataReqs = 1]
      [] r.phase = "retry"  -> [r1 EXCEPT !.pc = "data_wait2", !.dataReqs = 2]

\* query()/command() up to the first await.
StartDataOp(t, op) ==
    /\ task[t].pc = "idle"
    /\ LET r == [IdleTask EXCEPT !.op = op, !.phase = "pre"] IN
       IF EnsureLoginNeeded(password, logged_in)
       THEN EnterLogin(t, r)
       ELSE /\ task' = [task EXCEPT ![t] = [r EXCEPT !.pc = "data_wait", !.dataReqs = 1]]
            /\ lock' = lock
    /\ UNCHANGED <<password, logged_in, server_seen_ip, playlists, steps_cache, serverVars, coordVars>>

\* Task 1 is the poll coordinator's flow, which issues the queries; the
\* other tasks are user actions, which issue commands.
Pollers == {1}

query(t) == t \in Pollers /\ StartDataOp(t, "query") /\ UNCHANGED sent
command(t) == t \notin Pollers /\ StartDataOp(t, "command") /\ UNCHANGED sent
get_playlists(t) == t \in Pollers /\ StartDataOp(t, "get_playlists") /\ UNCHANGED sent
get_steps(t) == t \notin Pollers /\ StartDataOp(t, "get_steps") /\ UNCHANGED sent

\* ---- the clamping wrappers: set_volume, adjust_volume, seek_ms
Min(a, b) == IF a <= b THEN a ELSE b
Max(a, b) == IF a >= b THEN a ELSE b

\* str(n) of an integer: its decimal digits, with a minus sign if negative.
DigitChars == <<"0", "1", "2", "3", "4", "5", "6", "7", "8", "9">>

RECURSIVE Digits(_)
Digits(n) ==
    IF n < 10 THEN <<DigitChars[n + 1]>>
    ELSE Digits(n \div 10) \o <<DigitChars[(n % 10) + 1]>>

Str(n) == IF n < 0 THEN <<"-">> \o Digits(0 - n) ELSE Digits(n)

\* A variant of set_volume's clamp without the floor.
ClampVolume_NoFloor(v) == Min(100, v)

\* max(0, min(100, int(value_0_100)))
ClampVolume(v) == Max(0, Min(100, v))

\* max(-100, min(100, int(delta)))
ClampDelta(d) == Max(0 - 100, Min(100, d))

\* max(0, int(pos_ms))
ClampPosition(pos) == Max(0, pos)

\* No wrapper has sent anything yet.
NoRequest == [command |-> None, parameters |-> <<>>, arg |-> 0]

\* A wrapper hands command() its command name and str(clamped value); arg
\* keeps the value the wrapper was called with.
Wrapper(t, name, arg, value) ==
    /\ t \notin Pollers
    /\ StartDataOp(t, "command")
    /\ sent' = [command |-> name, parameters |-> Str(value), arg |-> arg]

set_volume(t, value_0_100) ==
    Wrapper(t, "Set volume to", value_0_100, ClampVolume(value_0_100))

adjust_volume(t, delta) ==
    Wrapper(t, "Adjust volume by", delta, ClampDelta(delta))

seek_ms(t, pos_ms) ==
    Wrapper(t, "Set step position ms", pos_ms, ClampPosition(pos_ms))

\* ---- setting output-to-lights: the switch entity and the service
\* OutputToLightsSwitch.is_on, and `current` of svc_set_output: the flag of
\* the coordinator's data compared with "true"; no data counts as off.
is_on ==
    /\ data # <<>>
    /\ data[1].payload.outputtolights = "true"

\* A variant that toggles whatever the snapshot says.
NeedsToggle_Always(desired, current) == TRUE

\* if not self.is_on / if self.is_on / if desired != current
NeedsToggle(desired, current) == desired # current

\* A handler asked for `desired`: it calls toggle_output_to_lights(), which
\* is command("Toggle output to lights"), or it does nothing.
SetOutput(t, desired) ==
    /\ t \notin Pollers
    /\ task[t].pc = "idle"
    /\ IF NeedsToggle(desired, is_on)
       THEN /\ StartDataOp(t, "command")
            /\ sent' = [command |-> "Toggle output to lights", parameters |-> <<>>,
                        arg |-> IF desired THEN 1 ELSE 0]
       ELSE /\ sent' = [command |-> None, parameters |-> <<>>,
                        arg |-> IF desired THEN 1 ELSE 0]
            /\ UNCHANGED <<clientVars, serverVars, coordVars>>

async_turn_on(t) == SetOutput(t, TRUE)
async_turn_off(t) == SetOutput(t, FALSE)
svc_set_output(t, desired) == SetOutput(t, desired)

\* async_login() called directly (config flow).
async_login(t) ==
    /\ task[t].pc = "idle"
    /\ LET r == [IdleTask EXCEPT !.op = "login", !.phase = "direct"] IN
       IF password = ""
       THEN /\ logged_in' = TRUE
            /\ task' = [task EXCEPT ![t] = AfterLogin(r, TRUE)]
            /\ lock' = lock
       ELSE /\ logged_in' = logged_in
            /\ EnterLogin(t, r)
    /\ UNCHANGED <<password, server_seen_ip, playlists, steps_cache, serverVars, coordVars, sent>>

\* _ensure_login / the direct caller resumes after async_login returned.
EnsureLoginReturn(t) ==
    /\ task[t].pc = "login_ret"
    /\ task' = [task EXCEPT ![t] = Continuation(task[t])]
    /\ UNCHANGED <<password, logged_in, server_seen_ip, lock, playlists, steps_cache, serverVars, coordVars, sent>>

\* A task waiting on the lock gets it once it is free.
AcquireLock(t) ==
    /\ task[t].pc = "lock_wait"
    /\ LockFree
    /\ lock' = t
    /\ task' = [task EXCEPT ![t] = SendFirstLogin(task[t])]
    /\ UNCHANGED <<password, logged_in, server_seen_ip, playlists, steps_cache, serverVars, coordVars, sent>>

\* _login_with_credential: the response to a login request with credential
\* r.cred; failed = TRUE is a transport failure (caught, returns False).
\* Gives the login's outcome and the server's and the client's new state.
LoginOutcome(r, failed) ==
    IF failed THEN "error" ELSE ServerLoginResult(r.cred)

\* A variant that opens the session on the server but forgets to set the flag.
ApplyLoginResponse_ForgetsFlag(js) ==
    /\ logged_in' = logged_in
    /\ IF LoginAccepted(js)
       THEN playlists' = None /\ steps_cache' = {}
       ELSE UNCHANGED <<playlists, steps_cache>>

\* A variant that keeps the cached lists across a new login.
ApplyLoginResponse_KeepCaches(js) ==
    /\ logged_in' = (logged_in \/ LoginAccepted(js))
    /\ UNCHANGED <<playlists, steps_cache>>

ApplyLoginResponse(js) ==
    IF LoginAccepted(js)
    THEN /\ logged_in' = TRUE
         /\ playlists' = None
         /\ steps_cache' = {}
    ELSE UNCHANGED <<logged_in, playlists, steps_cache>>

ServerAfterLogin(js) ==
    /\ srvSession' = (srvSession \/ js = "ok")
    /\ UNCHANGED <<srvIp, drops, ipChanges>>

\* Response to the login sent with the cached IP's credential.
LoginCachedResponse(t, Failures) ==
    /\ task[t].pc = "cached_wait"
    /\ \E failed \in Failures :
         LET r == task[t]
             js == LoginOutcome(r, failed)
             r1 == [r EXCEPT !.sawOk = @ \/ js = "ok"]
         IN
         /\ ApplyLoginResponse(js)
         /\ ServerAfterLogin(js)
         /\ IF LoginAccepted(js)
            THEN /\ lock' = 0
                 /\ task' = [task EXCEPT ![t] = AfterLogin(r1, TRUE)]
            ELSE \* fall through to _get_hinted_ip
                 /\ lock' = lock
                 /\ task' = [task EXCEPT ![t] =
                        [r1 EXCEPT !.pc = "hint_wait", !.cred = BadCredential,
                                   !.loginReqs = @ + 1]]
    /\ UNCHANGED <<password, server_seen_ip, coordVars, sent>>

\* _get_hinted_ip: response to the deliberately bad credential.
HintResponse(t, Failures) ==
    /\ task[t].pc = "hint_wait"
    /\ \E failed \in Failures :
         LET r == task[t]
             hinted_ip == IF failed THEN None ELSE srvIp
             r1 == [r EXCEPT !.hint = IF hinted_ip = None THEN "none" ELSE "got"]
         IN
         IF HintUsable(hinted_ip)
         THEN /\ server_seen_ip' = StoreHintedIp(server_seen_ip, hinted_ip)
              /\ lock' = lock
              /\ task' = [task EXCEPT ![t] =
                     [r1 EXCEPT !.pc = "hinted_wait",
                                !.cred = Md5(server_seen_ip', password),
                                !.loginReqs = @ + 1]]
         ELSE /\ server_seen_ip' = server_seen_ip
              /\ lock' = 0
              /\ task' = [task EXCEPT ![t] = AfterLogin(r1, FALSE)]
    /\ UNCHANGED <<password, logged_in, playlists, steps_cache, serverVars, coordVars, sent>>

\* Response to the login sent with the hinted IP's credential.
LoginHintedResponse(t, Failures) ==
    /\ task[t].pc = "hinted_wait"
    /\ \E failed \in Failures :
         LET r == task[t]
             js == LoginOutcome(r, failed)
             r1 == [r EXCEPT !.sawOk = @ \/ js = "ok"]
         IN
         /\ ApplyLoginResponse(js)
         /\ ServerAfterLogin(js)
         /\ lock' = 0
         /\ task' = [task EXCEPT ![t] = AfterLogin(r1, LoginAccepted(js))]
    /\ UNCHANGED <<password, server_seen_ip, coordVars, sent>>

\* What a wrapper stores when query() returns js to it.
\* get_playlists: self._playlists = js.get("playlists", [])
\* get_steps: self._steps_cache[key] = js.get("steps", [])
ListOf(js) == IF js = "ok" THEN "list" ELSE "empty"

StoreResult(op, js) ==
    /\ playlists' = IF op = "get_playlists" THEN ListOf(js) ELSE playlists
    /\ steps_cache' = IF op = "get_steps"
                      THEN {<<"A", ListOf(js)>>}
                      ELSE steps_cache

\* Response to the first data request of query()/command().
DataResponse(t, Failures) ==
    /\ task[t].pc = "data_wait"
    /\ \E failed \in Failures, js \in ServerDataResults :
         LET r == task[t] IN
         IF failed
         THEN \* the exception leaves query()/command() and its wrapper
              /\ task' = [task EXCEPT ![t] =
                     [r EXCEPT !.pc = "done", !.result = "raised"]]
              /\ UNCHANGED <<logged_in, lock, playlists, steps_cache>>
         ELSE LET r1 == [r EXCEPT !.js = js, !.firstRes = js] IN
              IF IsNotLoggedIn(js)
              THEN /\ logged_in' = MarkSessionLost(logged_in)
                   /\ UNCHANGED <<playlists, steps_cache>>
                   /\ IF EnsureLoginNeeded(password, logged_in')
                      THEN EnterLogin(t, [r1 EXCEPT !.phase = "retry"])
                      ELSE /\ lock' = lock
                           /\ task' = [task EXCEPT ![t] =
                                  [r1 EXCEPT !.pc = "data_wait2", !.dataReqs = 2]]
              ELSE /\ task' = [task EXCEPT ![t] =
                          [r1 EXCEPT !.pc = "done", !.result = js]]
                   /\ StoreResult(r.op, js)
                   /\ UNCHANGED <<logged_in, lock>>
    /\ UNCHANGED <<password, server_seen_ip, serverVars, coordVars, sent>>

\* A variant that keeps resending while the result is "not logged in".
RetryAgain_WhileNotLoggedIn(js) == IsNotLoggedIn(js)

\* return js: the result of the second request is not examined.
RetryAgain(js) == FALSE

\* Response to the second data request: returned whatever it is.
RetryResponse(t, Failures) ==
    /\ task[t].pc = "data_wait2"
    /\ \E failed \in Failures, js \in ServerDataResults :
         LET r == task[t] IN
         IF failed
         THEN /\ task' = [task EXCEPT ![t] =
                     [r EXCEPT !.pc = "done", !.result = "raised"]]
              /\ UNCHANGED <<playlists, steps_cache>>
         ELSE IF RetryAgain(js)
              THEN /\ task' = [task EXCEPT ![t] =
                          [r EXCEPT !.js = js, !.dataReqs = @ + 1]]
                   /\ UNCHANGED <<playlists, steps_cache>>
              ELSE /\ task' = [task EXCEPT ![t] =
                          [r EXCEPT !.pc = "done", !.js = js, !.result = js]]
                   /\ StoreResult(r.op, js)
    /\ UNCHANGED <<password, logged_in, server_seen_ip, lock, serverVars, coordVars, sent>>

\* The caller takes the result; the task is free for the next call.
Return(t) ==
    /\ task[t].pc = "done"
    /\ task' = [task EXCEPT ![t] = IdleTask]
    /\ UNCHANGED <<password, logged_in, server_seen_ip, lock, playlists, steps_cache, serverVars, coordVars, sent>>

\* ------------------------------------------------------------ environment
\* The server forgets the client's session (restart, timeout).
ServerDropSession ==
    /\ srvSession
    /\ drops < MaxDrops
    /\ srvSession' = FALSE
    /\ drops' = drops + 1
    /\ UNCHANGED <<clientVars, srvIp, ipChanges, coordVars, sent>>

\* The server starts seeing the client under another IP; sessions are per IP.
ServerChangeIp ==
    /\ ipChanges < MaxIpChanges
    /\ \E ip \in IPs \ {srvIp} : srvIp' = ip
    /\ srvSession' = FALSE
    /\ ipChanges' = ipChanges + 1
    /\ UNCHANGED <<clientVars, drops, coordVars, sent>>

\* ------------------------------------------------------------ coordinator
\* Optional values that are not strings: Unset is None, Some(x) is x.
Unset == <<>>
Some(x) == <<x>>

\* Python truthiness of an optional string.
Truthy(v) == v \notin {None, ""}

\* str.lower() and str.upper() on the values that occur.
Lower(s) ==
    CASE s = "Playing" -> "playing"
      [] s = "Paused"  -> "paused"
      [] s = "TRUE"    -> "true"
      [] s = "True"    -> "true"
      [] s = "FALSE"   -> "false"
      [] s = "N/A"     -> "n/a"
      [] OTHER         -> s

Upper(s) ==
    CASE s = "n/a"     -> "N/A"
      [] s = "playing" -> "PLAYING"
      [] s = "true"    -> "TRUE"
      [] OTHER         -> s

\* entry.options as configured: the poll intervals and the list TTL, seconds.
Options ==
    [poll_interval_idle |-> 5, poll_interval_playing |-> 2, lists_refresh_secs |-> 1]

ActiveStatuses == {"playing", "paused"}

\* ---- what the server may answer
StatusValues == {None, "idle", "playing", "paused", "Playing"}
PlaylistValues == {None, "A", "B"}
StepValues == {None, "", "s1", "s2"}
ScheduleValues == {None, "N/A", "7", "8"}
FlagValues == {None, "true", "false", "TRUE"}
VersionValues == {None, "2023.10", "2023.11"}
ListValues == {<<"A", "B">>}
NextScheduledValues == {"B"}

\* The server names a playlist and its id together.
PlaylistId(pl) == CASE pl = "A" -> "1" [] pl = "B" -> "2" [] OTHER -> None

Payload(st, pl, stp, sid, out, loop, ver) ==
    [result |-> None, status |-> st, playlist |-> pl, playlistid |-> PlaylistId(pl),
     step |-> stp, scheduleid |-> sid, outputtolights |-> out,
     playlistlooping |-> loop, version |-> ver]

\* A decoded body without any status field.
EmptyPayload == Payload(None, None, None, None, None, None, None)

\* {"result": "not logged in"}: what query() returns when its retry is
\* refused as well.
NotLoggedInPayload == [EmptyPayload EXCEPT !.result = NOT_LOGGED_IN]

\* Payloads that vary the playback status and the playlist.
PlaybackPayloads ==
    {Payload(st, pl, None, None, None, None, None) :
        st \in StatusValues, pl \in PlaylistValues}

\* Payloads that vary the schedule under several statuses.
SchedulePayloads ==
    {Payload(st, "A", None, sid, None, None, None) :
        st \in {"idle", "playing", "Playing"}, sid \in ScheduleValues}

\* Payloads that vary one of step, flags and version while a playlist plays.
DetailPayloads ==
    {Payload("playing", "A", stp, None, None, None, None) : stp \in StepValues}
    \cup {Payload("playing", "A", None, None, out, None, None) : out \in FlagValues}
    \cup {Payload("playing", "A", None, None, None, loop, None) : loop \in FlagValues}
    \cup {Payload("playing", "A", None, None, None, None, ver) : ver \in VersionValues}

\* A payload that reports a new version together with a running schedule.
UpgradedSchedulePayload ==
    Payload("playing", "A", None, "8", None, None, "2023.11")

Payloads ==
    PlaybackPayloads \cup SchedulePayloads \cup DetailPayloads
    \cup {UpgradedSchedulePayload, NotLoggedInPayload}

\* ---- _async_update_data, piece by piece
\* A variant that swallows the failure and goes on with an empty status.
Aborts_Never(outcome) == FALSE

\* except Exception as err: raise UpdateFailed(err)
Aborts(outcome) == outcome = Unset

StatusOf(outcome) == IF outcome = Unset THEN EmptyPayload ELSE outcome[1]

\* A variant that never leaves the idle cadence.
apply_interval_for_status_AlwaysIdle(status) == Options.poll_interval_idle

\* _apply_interval_for_status
apply_interval_for_status(status) ==
    IF status \in ActiveStatuses
    THEN Options.poll_interval_playing
    ELSE Options.poll_interval_idle

\* if isinstance(status, dict) and status.get("status"): ... else: "idle"
AppliedInterval(p) ==
    IF Truthy(p.status)
    THEN apply_interval_for_status(p.status)
    ELSE apply_interval_for_status("idle")

\* A variant that never notices a new version.
VersionChanged_Never(p) == FALSE

\* if ver and ver != self._last_version
VersionChanged(p) == Truthy(p.version) /\ p.version # last_version

\* A variant that reports the new version but keeps the list's timestamp.
TsAfterVersionCheck_Kept(p) == last_playlists_ts

\* self._last_playlists_ts = None, inside the version check
TsAfterVersionCheck(p) ==
    IF VersionChanged(p) THEN Unset ELSE last_playlists_ts

\* A variant that never lets the cached list expire.
NeedsListRefresh_NoTtl(ts, time) ==
    \/ last_playlists = Unset
    \/ ts = Unset

\* the refresh condition, with ts the timestamp after the version check
NeedsListRefresh(ts, time) ==
    \/ last_playlists = Unset
    \/ ts = Unset
    \/ time - ts[1] > Options.lists_refresh_secs

\* cur_sched_id
CurSchedId(p) ==
    IF /\ p.status \in ActiveStatuses
       /\ Truthy(p.scheduleid)
       /\ Upper(p.scheduleid) # "N/A"
    THEN p.scheduleid
    ELSE None

\* A variant that lower-cases the status without the "idle" default.
CurStatus_NoDefault(p) == Lower(p.status)

\* cur_status
CurStatus(p) == Lower(IF Truthy(p.status) THEN p.status ELSE "idle")
CurOutput(p) ==
    BoolStr(Lower(IF Truthy(p.outputtolights) THEN p.outputtolights ELSE "false") = "true")
CurLoop(p) ==
    BoolStr(Lower(IF Truthy(p.playlistlooping) THEN p.playlistlooping ELSE "false") = "true")

\* A variant that keeps the playlist remembered from the cycle before.
CurPlaylist_Remembered(p) == last_playlist

\* cur_playlist, as assigned to self._last_playlist
CurPlaylist(p) == p.playlist

Opt(cond, e) == IF cond THEN <<e>> ELSE <<>>

\* A variant that fires on every cycle that reports an active schedule.
ScheduleStartedFires_EveryCycle(p) == Truthy(CurSchedId(p))

\* if cur_sched_id and cur_sched_id != self._last_schedule_id
ScheduleStartedFires(p) ==
    /\ Truthy(CurSchedId(p))
    /\ CurSchedId(p) # last_schedule_id

\* A variant that does not ask for a remembered schedule.
ScheduleEndedFires_NoPrevious(p) == ~Truthy(CurSchedId(p))

\* if self._last_schedule_id and not cur_sched_id
ScheduleEndedFires(p) ==
    /\ Truthy(last_schedule_id)
    /\ ~Truthy(CurSchedId(p))

\* A variant that misses a playlist switch during playback.
PlaylistEndedFires_OnlyOnStop(p) ==
    /\ Truthy(last_playlist)
    /\ CurStatus(p) \notin ActiveStatuses

\* if self._last_playlist and (cur_playlist != self._last_playlist
\*                             or cur_status not in ("playing", "paused"))
PlaylistEndedFires(p) ==
    /\ Truthy(last_playlist)
    /\ (p.playlist # last_playlist \/ CurStatus(p) \notin ActiveStatuses)

\* A variant that fires on every cycle of an active playlist.
PlaylistStartedFires_EveryActiveCycle(p) ==
    /\ CurStatus(p) \in ActiveStatuses
    /\ Truthy(p.playlist)

\* if cur_status in ("playing", "paused"):
\*     if cur_playlist and (self._last_status not in ("playing", "paused")
\*                          or cur_playlist != self._last_playlist)
PlaylistStartedFires(p) ==
    /\ CurStatus(p) \in ActiveStatuses
    /\ Truthy(p.playlist)
    /\ (last_status \notin ActiveStatuses \/ p.playlist # last_playlist)

\* A variant that never reports a step.
StepChangedFires_Never(p) == FALSE

\* A variant that fires on any difference, also between two empty steps.
StepChangedFires_AnyDifference(p) == p.step # last_step

\* if cur_step != self._last_step: if cur_step or self._last_step
StepChangedFires(p) ==
    /\ p.step # last_step
    /\ (Truthy(p.step) \/ Truthy(last_step))

\* A variant that takes the unknown flag of the first cycle for a value.
OutputToggledFires_FromUnknown(p) == CurOutput(p) # last_output

\* if self._last_output is not None and cur_output != self._last_output
OutputToggledFires(p) ==
    /\ last_output # None
    /\ CurOutput(p) # last_output

\* if self._last_playlist_loop is not None and cur_loop != self._last_playlist_loop
LoopChangedFires(p) ==
    /\ last_playlist_loop # None
    /\ CurLoop(p) # last_playlist_loop

\* EVENT_PLAYLIST_ENDED with the previous playlist, if it fires.
PlaylistEndedEvent(p) ==
    Opt(PlaylistEndedFires(p),
        [name |-> "playlist_ended", playlist |-> last_playlist,
         playlistid |-> last_playlist_id, status |-> CurStatus(p)])

\* EVENT_PLAYLIST_STARTED with the current playlist, if it fires.
PlaylistStartedEvent(p) ==
    Opt(PlaylistStartedFires(p),
        [name |-> "playlist_started", playlist |-> p.playlist,
         playlistid |-> p.playlistid, status |-> CurStatus(p)])

\* A variant that announces the new playlist before it ends the old one.
PlaylistEvents_StartedFirst(p) == PlaylistStartedEvent(p) \o PlaylistEndedEvent(p)

\* The playlist-ended block comes before the playlist-started block.
PlaylistEvents(p) == PlaylistEndedEvent(p) \o PlaylistStartedEvent(p)

\* The events of one cycle, in the order the code fires them.
CycleEvents(p) ==
    LET cur_sched_id == CurSchedId(p)
        cur_status == CurStatus(p)
        cur_playlist == p.playlist
        cur_playlist_id == p.playlistid
        cur_step == p.step
        cur_output == CurOutput(p)
        cur_loop == CurLoop(p)
    IN
    Opt(VersionChanged(p),
        [name |-> "version_changed", version |-> p.version])
    \o
    Opt(ScheduleStartedFires(p),
        [name |-> "schedule_started", scheduleid |-> cur_sched_id,
         playlist |-> p.playlist, playlistid |-> p.playlistid])
    \o
    Opt(ScheduleEndedFires(p),
        [name |-> "schedule_ended", scheduleid |-> last_schedule_id])
    \o
    PlaylistEvents(p)
    \o
    Opt(StepChangedFires(p),
        [name |-> "step_changed", playlist |-> cur_playlist,
         playlistid |-> cur_playlist_id, step |-> cur_step,
         previous_step |-> last_step, status |-> cur_status])
    \o
    Opt(OutputToggledFires(p),
        [name |-> "output_toggled", state |-> cur_output,
         playlist |-> cur_playlist, playlistid |-> cur_playlist_id,
         status |-> cur_status])
    \o
    Opt(LoopChangedFires(p),
        [name |-> "playlist_loop_changed", loop |-> cur_loop,
         playlist |-> cur_playlist, playlistid |-> cur_playlist_id,
         status |-> cur_status])

\* A variant that shows a made-up next-scheduled answer when the query failed.
Snapshot_StaleNextScheduled(p, lists, ts, next_sched) ==
    [payload |-> p,
     x_playlists |-> IF lists = Unset THEN <<>> ELSE lists[1],
     x_ts |-> ts,
     x_next_scheduled |-> IF next_sched = Unset THEN Some("B") ELSE next_sched]

\* return status: the payload with the three injected fields.
Snapshot(p, lists, ts, next_sched) ==
    [payload |-> p,
     x_playlists |-> IF lists = Unset THEN <<>> ELSE lists[1],
     x_ts |-> ts,
     x_next_scheduled |-> next_sched]

\* A variant that forgets the cached list when no list was fetched.
ListsAfterRefresh_Dropped(fetched, lists) ==
    IF fetched THEN lists ELSE Unset

\* self._last_playlists after the refresh block: assigned only when
\* get_playlists() returned (except Exception: pass).
ListsAfterRefresh(fetched, lists) ==
    IF fetched THEN lists ELSE last_playlists

\* A variant that stamps the cache at every attempt, also a failed one.
TsAfterRefresh_StampedOnAttempt(fetched, ts, time) ==
    IF NeedsListRefresh(ts, time) THEN Some(time) ELSE ts

\* self._last_playlists_ts = now, reached only when get_playlists() returned.
TsAfterRefresh(fetched, ts, time) ==
    IF fetched THEN Some(time) ELSE ts

\* One poll cycle at time `time`. outcome is what get_playing_status gave
\* (Unset: it raised), lists what get_playlists gives if it is called,
\* next_sched what the GetNextScheduledPlayList query gives.
CycleBody(time, outcome, lists, next_sched) ==
    /\ pending = Unset
    /\ now' = time
    /\ status_result' = IF outcome = Unset THEN "raised"
                        ELSE IF outcome[1].result = NOT_LOGGED_IN
                             THEN NOT_LOGGED_IN ELSE "ok"
    /\ IF Aborts(outcome)
       THEN /\ events' = <<>>
            /\ list_request' = "none"
            /\ next_request' = "none"
            /\ UNCHANGED <<edgeVars, cacheVars, update_interval>>
       ELSE LET p == StatusOf(outcome)
                ts1 == TsAfterVersionCheck(p)
                refresh == NeedsListRefresh(ts1, time)
                fetched == refresh /\ lists # Unset
                new_lists == ListsAfterRefresh(fetched, lists)
            IN
            /\ (~refresh => lists = Unset)
            /\ list_request' = IF ~refresh THEN "none"
                               ELSE IF fetched THEN "fetched" ELSE "failed"
            /\ update_interval' = AppliedInterval(p)
            /\ last_version' = IF VersionChanged(p) THEN p.version ELSE last_version
            /\ last_playlists' = new_lists
            /\ next_request' = IF next_sched = Unset THEN "failed" ELSE "ok"
            /\ last_playlists_ts' = TsAfterRefresh(fetched, ts1, time)
            /\ events' = CycleEvents(p)
            /\ last_schedule_id' = CurSchedId(p)
            /\ last_status' = CurStatus(p)
            /\ last_playlist' = CurPlaylist(p)
            /\ last_playlist_id' = p.playlistid
            /\ last_step' = p.step
            /\ last_output' = CurOutput(p)
            /\ last_playlist_loop' = CurLoop(p)
    /\ UNCHANGED <<clientVars, serverVars, sent>>

\* return status: the payload with the fields injected during this cycle.
Returned(time, outcome, next_sched) ==
    Some(Snapshot(StatusOf(outcome), last_playlists', time, next_sched))

\* A variant in which the handler itself stores its snapshot before it fires.
DataWhileRunning_Early(returned) == returned

\* coordinator.data while _async_update_data runs: the handler never assigns
\* it, it still holds what the previous cycle returned.
DataWhileRunning(returned) == data

\* One whole poll cycle: the handler runs and DataUpdateCoordinator stores
\* what it returned (UpdateFailed: it keeps the data and clears the flag).
async_update_data(time, outcome, lists, next_sched) ==
    /\ CycleBody(time, outcome, lists, next_sched)
    /\ IF Aborts(outcome)
       THEN /\ last_update_success' = FALSE
            /\ data' = data
       ELSE /\ last_update_success' = TRUE
            /\ data' = Returned(time, outcome, next_sched)
    /\ pending' = Unset

\* The handler of a cycle whose status fetch returned runs up to its return:
\* it has fired its events; its snapshot is not yet the coordinator's data.
RunCycle(time, p, lists, next_sched) ==
    /\ CycleBody(time, Some(p), lists, next_sched)
    /\ pending' = Returned(time, Some(p), next_sched)
    /\ data' = DataWhileRunning(pending')
    /\ UNCHANGED last_update_success

\* DataUpdateCoordinator stores the returned snapshot as coordinator.data.
Publish ==
    /\ pending # Unset
    /\ data' = pending
    /\ last_update_success' = TRUE
    /\ pending' = Unset
    /\ UNCHANGED <<clientVars, serverVars, sent, edgeVars, cacheVars,
                   update_interval, events, status_result, list_request,
                   next_request, now>>

ListOutcomes == {Unset} \cup {Some(l) : l \in ListValues}
NextScheduledOutcomes == {Unset} \cup {Some(n) : n \in NextScheduledValues}
Times == {t \in {now, now + 1} : t <= MaxTime}

\* The timer (or a requested refresh) runs a cycle whose status fetch raises.
PollFails ==
    \E time \in Times : async_update_data(time, Unset, Unset, Unset)

\* The timer (or a requested refresh) runs a cycle whose status fetch returns
\* a payload of P; the next-scheduled query ends as one of N.
PollSucceeds(P, N) ==
    \E time \in Times, p \in P, lists \in ListOutcomes, next_sched \in N :
        async_update_data(time, Some(p), lists, next_sched)

\* What get_playlists() returns for a reply without a "playlists" key (a
\* refused query): js.get("playlists", []).
RefusedList == <<>>

\* get_playlists() raises, returns the server's list, or returns the empty
\* list of a refused query.
SecondaryListOutcomes == ListOutcomes \cup {Some(RefusedList)}

\* Status payloads that vary the playlist and the version during playback.
SecondaryPayloads ==
    {EmptyPayload}
    \cup {Payload("playing", pl, None, None, None, None, ver) :
             pl \in {"A", "B"}, ver \in VersionValues}

\* A cycle whose status fetch returns, with every outcome of the two
\* secondary queries.
PollWithSecondaries ==
    \E time \in Times, p \in SecondaryPayloads,
       lists \in SecondaryListOutcomes, next_sched \in NextScheduledOutcomes :
        async_update_data(time, Some(p), lists, next_sched)

\* ------------------------------------------------------------ specification
Init ==
    /\ password \in Passwords
    /\ logged_in = FALSE
    /\ server_seen_ip = None
    /\ lock = 0
    /\ playlists = None
    /\ steps_cache = {}
    /\ task = [t \in Tasks |-> IdleTask]
    /\ srvSession \in BOOLEAN
    /\ srvIp = "10.0.0.1"
    /\ drops = 0
    /\ ipChanges = 0
    /\ last_playlists = Unset
    /\ last_playlists_ts = Unset
    /\ last_schedule_id = None
    /\ last_version = None
    /\ last_status = None
    /\ last_playlist = None
    /\ last_playlist_id = None
    /\ last_step = None
    /\ last_output = None
    /\ last_playlist_loop = None
    /\ update_interval = Options.poll_interval_idle
    /\ data = Unset
    /\ last_update_success = TRUE
    /\ events = <<>>
    /\ status_result = "none"
    /\ list_request = "none"
    /\ next_request = "none"
    /\ pending = Unset
    /\ now = 0
    /\ sent = NoRequest

Next ==
    \/ \E t \in Tasks : query(t)
    \/ \E t \in Tasks : command(t)
    \/ \E t \in Tasks : async_login(t)
    \/ \E t \in Tasks : AcquireLock(t)
    \/ \E t \in Tasks : EnsureLoginReturn(t)
    \/ \E t \in Tasks : LoginCachedResponse(t, BOOLEAN)
    \/ \E t \in Tasks : HintResponse(t, BOOLEAN)
    \/ \E t \in Tasks : LoginHintedResponse(t, BOOLEAN)
    \/ \E t \in Tasks : DataResponse(t, BOOLEAN)
    \/ \E t \in Tasks : RetryResponse(t, BOOLEAN)
    \/ \E t \in Tasks : Return(t)
    \/ ServerDropSession
    \/ ServerChangeIp

Spec == Init /\ [][Next]_vars

\* The environment of a server that answers every request and loses the
\* session or changes the observed IP only while no handshake or retry of
\* the client is under way.
Quiet == \A t \in Tasks : task[t].pc \in {"idle", "data_wait", "done"}

NextCalm ==
    \/ \E t \in Tasks : query(t)
    \/ \E t \in Tasks : command(t)
    \/ \E t \in Tasks : async_login(t)
    \/ \E t \in Tasks : AcquireLock(t)
    \/ \E t \in Tasks : EnsureLoginReturn(t)
    \/ \E t \in Tasks : LoginCachedResponse(t, {FALSE})
    \/ \E t \in Tasks : HintResponse(t, {FALSE})
    \/ \E t \in Tasks : LoginHintedResponse(t, {FALSE})
    \/ \E t \in Tasks : DataResponse(t, {FALSE})
    \/ \E t \in Tasks : RetryResponse(t, {FALSE})
    \/ \E t \in Tasks : Return(t)
    \/ (Quiet /\ ServerDropSession)
    \/ (Quiet /\ ServerChangeIp)

SpecCalm == Init /\ [][NextCalm]_vars

\* The poll coordinator alone: one cycle at a time, the client's answers
\* taken as given.
NextCoord ==
    \/ PollFails
    \/ PollSucceeds(Payloads, {Some("B")})

InitCoord ==
    /\ Init
    /\ password = ""
    /\ srvSession

SpecCoord == InitCoord /\ [][NextCoord]_vars

\* The clamping wrappers called with integers around the limits of their
\* ranges, on a client without a password.
Inputs ==
    UNION {(b - Margin)..(b + Margin) : b \in {0 - 100, 0, 100}}

NextWrappers ==
    \/ \E t \in Tasks, v \in Inputs : set_volume(t, v)
    \/ \E t \in Tasks, d \in Inputs : adjust_volume(t, d)
    \/ \E t \in Tasks, pos \in Inputs : seek_ms(t, pos)
    \/ \E t \in Tasks : DataResponse(t, BOOLEAN)
    \/ \E t \in Tasks : Return(t)

SpecWrappers == InitCoord /\ [][NextWrappers]_vars

\* The poll coordinator with its secondary queries failing or not.
NextSecondary ==
    \/ PollFails
    \/ PollWithSecondaries

SpecSecondary == InitCoord /\ [][NextSecondary]_vars

\* The client's list wrappers on a server that answers every request and
\* may forget the session at any moment.
NextLists ==
    \/ \E t \in Tasks : get_playlists(t)
    \/ \E t \in Tasks : get_steps(t)
    \/ \E t \in Tasks : AcquireLock(t)
    \/ \E t \in Tasks : EnsureLoginReturn(t)
    \/ \E t \in Tasks : LoginCachedResponse(t, {FALSE})
    \/ \E t \in Tasks : HintResponse(t, {FALSE})
    \/ \E t \in Tasks : LoginHintedResponse(t, {FALSE})
    \/ \E t \in Tasks : DataResponse(t, {FALSE})
    \/ \E t \in Tasks : RetryResponse(t, {FALSE})
    \/ \E t \in Tasks : Return(t)
    \/ ServerDropSession

SpecLists == Init /\ [][NextLists]_vars

\* The client against a server that answers every request, holds no
\* session and rejects every login: the configured password is wrong.
InitRefusing ==
    /\ Init
    /\ password = "wrong"
    /\ ~srvSession

NextRefusing ==
    \/ \E t \in Tasks : query(t)
    \/ \E t \in Tasks : command(t)
    \/ \E t \in Tasks : AcquireLock(t)
    \/ \E t \in Tasks : EnsureLoginReturn(t)
    \/ \E t \in Tasks : LoginCachedResponse(t, {FALSE})
    \/ \E t \in Tasks : HintResponse(t, {FALSE})
    \/ \E t \in Tasks : LoginHintedResponse(t, {FALSE})
    \/ \E t \in Tasks : DataResponse(t, {FALSE})
    \/ \E t \in Tasks : RetryResponse(t, {FALSE})
    \/ \E t \in Tasks : Return(t)
    \/ ServerChangeIp

\* Every response arrives and every resumed coroutine runs; asyncio.Lock
\* wakes its waiters in turn, so a waiter gets the lock in the end.
FairRefusing ==
    \A t \in Tasks :
        /\ SF_vars(AcquireLock(t))
        /\ WF_vars(EnsureLoginReturn(t))
        /\ WF_vars(LoginCachedResponse(t, {FALSE}))
        /\ WF_vars(HintResponse(t, {FALSE}))
        /\ WF_vars(LoginHintedResponse(t, {FALSE}))
        /\ WF_vars(DataResponse(t, {FALSE}))
        /\ WF_vars(RetryResponse(t, {FALSE}))

SpecRefusing == InitRefusing /\ [][NextRefusing]_vars /\ FairRefusing

\* The poll coordinator with the handler's return and the publication of
\* its snapshot as two steps.
NextPublish ==
    \/ PollFails
    \/ \E time \in Times, p \in SecondaryPayloads, lists \in ListOutcomes :
          RunCycle(time, p, lists, Some("B"))
    \/ Publish

SpecPublish == InitCoord /\ [][NextPublish]_vars

\* Status payloads that vary the output flag.
OutputPayloads ==
    {Payload(st, "A", None, None, out, None, None) :
        st \in {"idle", "playing"}, out \in FlagValues}

\* The output switch and the set_output_to_lights service beside the poll
\* coordinator, on a client without a password.
NextSwitch ==
    \/ \E t \in Tasks : async_turn_on(t)
    \/ \E t \in Tasks : async_turn_off(t)
    \/ \E t \in Tasks, desired \in BOOLEAN : svc_set_output(t, desired)
    \/ \E t \in Tasks : DataResponse(t, BOOLEAN)
    \/ \E t \in Tasks : Return(t)
    \/ PollFails
    \/ PollSucceeds(OutputPayloads, {Some("B")})

SpecSwitch == InitCoord /\ [][NextSwitch]_vars

\* ------------------------------------------------------------------ claims
IsDataCall(r) == r.phase \in {"pre", "retry"}

\* C1: a query()/command() call sends its data request at most twice; it
\* sends it a second time exactly when the first decoded result is "not
\* logged in"; what it returns is the result of its last request, also when
\* that is "not logged in" again.
RetryExactlyOnce ==
    \A t \in Tasks :
        LET r == task[t] IN
        IsDataCall(r) =>
            /\ r.dataReqs <= 2
            /\ (r.dataReqs = 2 => r.firstRes = NOT_LOGGED_IN)
            /\ (r.pc = "done" =>
                   /\ (r.dataReqs = 2 <=> r.firstRes = NOT_LOGGED_IN)
                   /\ r.result \in {"raised", r.js}
                   /\ (r.dataReqs = 1 /\ r.result # "raised" => r.result = r.firstRes))

\* C1 witness: a call that was answered "not logged in" twice returned after
\* its second request with that result.
SecondNotLoggedInReturned ==
    \E t \in Tasks :
        /\ task[t].pc = "done"
        /\ task[t].dataReqs = 2
        /\ task[t].firstRes = NOT_LOGGED_IN
        /\ task[t].result = NOT_LOGGED_IN

\* C2: with the right secret configured and a server that answers every
\* request, a query()/command() call returns the server's real result, never
\* "not logged in", although the server had dropped the session.
SessionLossRecovered ==
    \A t \in Tasks :
        LET r == task[t] IN
        (IsDataCall(r) /\ r.pc = "done" /\ password = ServerPassword)
            => r.result \in RealResults

\* C2 witness: a call whose first request was refused for a lost session
\* returned a real result.
RecoveredInsideCall ==
    \E t \in Tasks :
        /\ password = ServerPassword
        /\ drops + ipChanges > 0
        /\ task[t].pc = "done"
        /\ task[t].firstRes = NOT_LOGGED_IN
        /\ task[t].result \in RealResults

\* C5: with a secret configured at most one async_login call has a login
\* request in flight, and it is the one holding the lock: no other call
\* sends a login request between its first request and its return.
OneLoginInFlight ==
    password # "" =>
        /\ Cardinality({t \in Tasks : task[t].pc \in LoginWait}) <= 1
        /\ \A t \in Tasks : task[t].pc \in LoginWait => lock = t

\* C5 witness: one call is in its handshake while another waits for it.
LoginInFlightWithWaiter ==
    \E t, u \in Tasks :
        /\ t # u
        /\ task[t].pc \in LoginWait
        /\ task[u].pc = "lock_wait"

\* C6: an operation that found the session LoggedOut and waited for another
\* caller's login sends no login request of its own once that login has
\* succeeded: no query/command has a login request in flight while the
\* session is LoggedIn.
WaitersShareHandshake ==
    \A t \in Tasks :
        (IsDataCall(task[t]) /\ task[t].pc \in LoginWait) => ~logged_in

\* C7: with a secret configured the flag goes from false to true only in a
\* step that delivers an "ok" login response; a login without any "ok"
\* returns False, and a response that is not "ok" leaves the flag alone.
LoggedInOnlyOnOk ==
    [][ /\ (password # "" /\ ~logged_in /\ logged_in') =>
              \E t \in Tasks :
                  /\ task[t].pc \in {"cached_wait", "hinted_wait"}
                  /\ task'[t].pc = "login_ret"
                  /\ task'[t].sawOk
        /\ \A t \in Tasks :
              (password # "" /\ task'[t].pc = "login_ret" /\ ~task'[t].sawOk)
                  => task'[t].loginRet = "False"
        /\ \A t \in Tasks :
              (task[t].pc \in LoginWait /\ task'[t] # task[t] /\ ~task'[t].sawOk)
                  => logged_in' = logged_in
      ]_vars

\* C7 witness: a login in which no attempt was accepted has returned False
\* and the session is LoggedOut.
FailedLoginLeavesLoggedOut ==
    \E t \in Tasks :
        /\ password # ""
        /\ task[t].pc = "login_ret"
        /\ task[t].loginReqs >= 2
        /\ ~task[t].sawOk
        /\ task[t].loginRet = "False"
        /\ ~logged_in

\* C8 as claimed: a login begun without a cached IP has made at least two
\* round trips when it returns; one begun with a cached IP whose credential
\* was accepted has made exactly one.
LoginAlwaysTwoRoundTrips ==
    \A t \in Tasks :
        LET r == task[t] IN
        r.pc = "login_ret" =>
            /\ (r.hadIp = "no" => r.loginReqs >= 2)
            /\ (r.hadIp = "yes" /\ r.hint = "unset" => r.sawOk /\ r.loginReqs = 1)

\* C8 as amended: with a secret configured, a login begun without a cached
\* IP starts with the hint fetch and makes the second round trip (the derived
\* credential) exactly when the hint fetch gave an IP; when it gave none the
\* login returns False after that single round trip. A login begun with a
\* cached IP whose credential is accepted makes exactly one round trip.
LoginRoundTrips ==
    \A t \in Tasks :
        LET r == task[t] IN
        /\ (r.pc = "cached_wait" => r.hadIp = "yes" /\ r.loginReqs = 1)
        /\ (r.pc = "hint_wait" /\ r.hadIp = "no" => r.loginReqs = 1)
        /\ (r.pc = "hinted_wait" /\ r.hadIp = "no" => r.loginReqs = 2)
        /\ (r.pc = "login_ret" /\ r.hadIp = "no" =>
               \/ r.hint = "got" /\ r.loginReqs = 2
               \/ r.hint = "none" /\ r.loginReqs = 1 /\ r.loginRet = "False")
        /\ (r.pc = "login_ret" /\ r.hadIp = "yes" /\ r.hint = "unset" =>
               r.sawOk /\ r.loginReqs = 1)
        /\ (r.pc = "login_ret" /\ r.hadIp = "yes" /\ r.loginReqs = 1 => r.sawOk)

\* C8 witness: a login begun without a cached IP returned after the hint
\* fetch alone, because the fetch gave no IP.
LoginEndedAfterHintFetch ==
    \E t \in Tasks :
        /\ task[t].pc = "login_ret"
        /\ task[t].hadIp = "no"
        /\ task[t].hint = "none"
        /\ task[t].loginReqs = 1

\* C9: without a secret no step ever puts a login request in flight or
\* makes a caller wait for the login lock, whatever the results of its calls;
\* and a query/command started while the session is LoggedIn goes straight
\* to its data request.
NoLoginWithoutNeed ==
    [][ /\ password = "" =>
              \A t \in Tasks :
                  /\ task'[t].pc \notin LoginWait \cup {"lock_wait"}
                  /\ task'[t].loginReqs = 0
        /\ \A t \in Tasks :
              (task[t].pc = "idle" /\ IsDataCall(task'[t]) /\ logged_in)
                  => (task'[t].pc = "data_wait" /\ task'[t].loginReqs = 0)
      ]_vars

\* C9 witness: without a secret a call was answered "not logged in" twice
\* and returned; no login request was sent for it.
NoSecretCallRefusedTwice ==
    \E t \in Tasks :
        /\ password = ""
        /\ task[t].pc = "done"
        /\ task[t].dataReqs = 2
        /\ task[t].result = NOT_LOGGED_IN

\* C3: a cycle whose status fetch raises ends as an update failure, fires no
\* event and changes nothing of the coordinator: EdgeState, the cached
\* playlist list and its timestamp, the polling interval and the published
\* snapshot are what they were.
FailedFetchChangesNothing ==
    [][ status_result' = "raised" =>
            /\ ~last_update_success'
            /\ events' = <<>>
            /\ UNCHANGED <<edgeVars, cacheVars, update_interval, data>>
      ]_vars

\* C3 witness: the status fetch raised after a cycle that had published a
\* playing snapshot, cached the list and switched to the active interval.
FailureAfterGoodSnapshot ==
    /\ status_result = "raised"
    /\ ~last_update_success
    /\ data # Unset
    /\ last_playlist = "A"
    /\ last_playlists # Unset
    /\ update_interval = Options.poll_interval_playing

\* C4: two successful cycles in a row that get the same status payload leave
\* the same derived fields (EdgeState), and the second fires no event.
PollIdempotent ==
    [][ ( /\ status_result = "ok"
          /\ status_result' = "ok"
          /\ data # Unset
          /\ data' # Unset
          /\ data'[1].payload = data[1].payload )
        => ( events' = <<>> /\ UNCHANGED edgeVars )
      ]_vars

\* C10: a cycle whose status query returns "not logged in" after the retry
\* is a failed cycle: it fires no event, leaves EdgeState as it was and does
\* not publish that result as the snapshot.
NotLoggedInIsFailure ==
    [][ status_result' = NOT_LOGGED_IN =>
            /\ events' = <<>>
            /\ UNCHANGED edgeVars
            /\ data' = data
      ]_vars

\* ------------------------------------------------- claims on the poll cycle
\* A step that is a cycle whose status fetch returned a payload.
SuccessfulCycle == status_result' \in {"ok", NOT_LOGGED_IN}

\* The payload of the cycle the step runs, and of the last successful cycle
\* before it (none yet: a payload without fields).
CyclePayload == data'[1].payload
PrevPayload == IF data = Unset THEN EmptyPayload ELSE data[1].payload

Fired(n) == \E i \in 1..Len(events') : events'[i].name = n
HasFired(n) == \E i \in 1..Len(events) : events[i].name = n

\* C11: after a successful cycle the polling interval is the configured
\* active interval when the cycle's status is playing or paused and the
\* configured idle interval when it is idle or missing; before the first
\* successful cycle it is the idle interval.
IntervalFollowsStatus ==
    [][ /\ (data = Unset => update_interval = Options.poll_interval_idle)
        /\ (SuccessfulCycle =>
              /\ (CyclePayload.status \in {"playing", "paused"}
                    => update_interval' = Options.poll_interval_playing)
              /\ (CyclePayload.status \in {None, "idle"}
                    => update_interval' = Options.poll_interval_idle))
      ]_vars

IntervalActiveWhilePaused ==
    /\ status_result = "ok"
    /\ data # Unset
    /\ data[1].payload.status = "paused"
    /\ update_interval = Options.poll_interval_playing

\* C12: a successful cycle that reports a version other than the last
\* observed one fires version-changed and asks for the playlist list again,
\* however young the cached list is.
VersionChangeRefetchesLists ==
    [][ ( /\ SuccessfulCycle
          /\ Truthy(CyclePayload.version)
          /\ CyclePayload.version # last_version )
        => ( /\ Fired("version_changed")
             /\ list_request' # "none" ) ]_vars

VersionChangedWithinTtl ==
    /\ HasFired("version_changed")
    /\ list_request = "fetched"
    /\ last_version = "2023.11"
    /\ now <= Options.lists_refresh_secs

\* C13 (as stated): in a successful cycle playlist-started fires exactly
\* when the current status is playing or paused and either the previous
\* cycle's status was not playing/paused or the playlist name differs from
\* the previous cycle's.
PlaylistStartedIffEntered ==
    [][ SuccessfulCycle =>
          ( Fired("playlist_started") <=>
              ( /\ CurStatus(CyclePayload) \in ActiveStatuses
                /\ ( CurStatus(PrevPayload) \notin ActiveStatuses
                     \/ CyclePayload.playlist # PrevPayload.playlist ) ) )
      ]_vars

\* C13 (amended): the same, where the cycle's payload also has to name a
\* playlist; the event carries that playlist.
PlaylistStartedIffEnteredNamed ==
    [][ SuccessfulCycle =>
          /\ ( Fired("playlist_started") <=>
                 ( /\ CurStatus(CyclePayload) \in ActiveStatuses
                   /\ Truthy(CyclePayload.playlist)
                   /\ ( CurStatus(PrevPayload) \notin ActiveStatuses
                        \/ CyclePayload.playlist # PrevPayload.playlist ) ) )
          /\ \A i \in 1..Len(events') :
                events'[i].name = "playlist_started"
                    => events'[i].playlist = CyclePayload.playlist
      ]_vars

StartedAfterIdle ==
    /\ events = <<[name |-> "playlist_started", playlist |-> "A",
                   playlistid |-> "1", status |-> "playing"]>>
    /\ last_status = "playing"
    /\ last_playlist = "A"

\* C14: in a successful cycle playlist-ended fires exactly when a previous
\* playlist was active (named by the previous cycle, whose status was
\* playing or paused) and either the playlist changed or the status left
\* playing/paused; it carries the previous playlist and its id.
PlaylistEndedIffLeft ==
    [][ SuccessfulCycle =>
          /\ ( Fired("playlist_ended") <=>
                 ( /\ Truthy(PrevPayload.playlist)
                   /\ CurStatus(PrevPayload) \in ActiveStatuses
                   /\ ( CyclePayload.playlist # PrevPayload.playlist
                        \/ CurStatus(CyclePayload) \notin ActiveStatuses ) ) )
          /\ \A i \in 1..Len(events') :
                events'[i].name = "playlist_ended"
                    => /\ events'[i].playlist = PrevPayload.playlist
                       /\ events'[i].playlistid = PrevPayload.playlistid
      ]_vars

\* C15: when the playlist changes between two consecutive successful cycles
\* whose statuses are both playing/paused, the second cycle fires
\* playlist-ended with the old playlist and playlist-started with the new.
PlaylistSwitchFiresBoth ==
    [][ ( /\ SuccessfulCycle
          /\ CurStatus(PrevPayload) \in ActiveStatuses
          /\ CurStatus(CyclePayload) \in ActiveStatuses
          /\ Truthy(PrevPayload.playlist)
          /\ Truthy(CyclePayload.playlist)
          /\ CyclePayload.playlist # PrevPayload.playlist )
        => ( /\ \E i \in 1..Len(events') :
                   /\ events'[i].name = "playlist_ended"
                   /\ events'[i].playlist = PrevPayload.playlist
             /\ \E i \in 1..Len(events') :
                   /\ events'[i].name = "playlist_started"
                   /\ events'[i].playlist = CyclePayload.playlist )
      ]_vars

SwitchedFromAToB ==
    /\ \E i \in 1..Len(events) :
          events[i].name = "playlist_ended" /\ events[i].playlist = "A"
    /\ \E i \in 1..Len(events) :
          events[i].name = "playlist_started" /\ events[i].playlist = "B"
    /\ last_status \in ActiveStatuses

\* C16: two consecutive successful cycles with the same playing status,
\* playlist, flags, schedule and version that differ only in the step, both
\* steps named: the second fires step-changed with the two steps and
\* nothing else.
OnlyStepChanged ==
    [][ ( /\ SuccessfulCycle
          /\ data # Unset
          /\ CurStatus(CyclePayload) = "playing"
          /\ Truthy(PrevPayload.step)
          /\ Truthy(CyclePayload.step)
          /\ CyclePayload.step # PrevPayload.step
          /\ CyclePayload = [PrevPayload EXCEPT !.step = CyclePayload.step] )
        => ( /\ Len(events') = 1
             /\ events'[1].name = "step_changed"
             /\ events'[1].previous_step = PrevPayload.step
             /\ events'[1].step = CyclePayload.step )
      ]_vars

StepWentFromS1ToS2 ==
    /\ Len(events) = 1
    /\ events[1].name = "step_changed"
    /\ events[1].previous_step = "s1"
    /\ events[1].step = "s2"
    /\ last_playlist = "A"

\* C17: in a successful cycle step-changed fires exactly when the current
\* step differs from the previous cycle's step and one of the two is
\* non-empty.
StepChangedIff ==
    [][ SuccessfulCycle =>
          ( Fired("step_changed") <=>
              ( /\ CyclePayload.step # PrevPayload.step
                /\ ( CyclePayload.step \notin {None, ""}
                     \/ PrevPayload.step \notin {None, ""} ) ) )
      ]_vars

StepClearedAfterS1 ==
    \E i \in 1..Len(events) :
        /\ events[i].name = "step_changed"
        /\ events[i].previous_step = "s1"
        /\ events[i].step \in {None, ""}

\* The schedule id a payload reports for running playback: the scheduleid
\* field while the status is playing or paused, unless empty or "N/A".
ActiveScheduleId(p) ==
    IF p.status \in {"playing", "paused"} /\ p.scheduleid \notin {None, "", "N/A"}
    THEN p.scheduleid
    ELSE None

FlagOf(v) == v \in {"true", "TRUE", "True"}

\* C20: output-toggled (playlist-loop-changed) fires in a successful cycle
\* exactly when a previous successful cycle made the output (loop) flag
\* known and the current flag differs from it; neither fires on the first
\* successful cycle.
FlagEventsIff ==
    [][ SuccessfulCycle =>
          /\ ( Fired("output_toggled") <=>
                 ( /\ data # Unset
                   /\ FlagOf(CyclePayload.outputtolights)
                        # FlagOf(PrevPayload.outputtolights) ) )
          /\ ( Fired("playlist_loop_changed") <=>
                 ( /\ data # Unset
                   /\ FlagOf(CyclePayload.playlistlooping)
                        # FlagOf(PrevPayload.playlistlooping) ) )
      ]_vars

BothFlagsFlipped ==
    /\ HasFired("output_toggled")
    /\ HasFired("playlist_loop_changed")
    /\ last_output = "False"
    /\ last_playlist_loop = "True"

\* The payload with its status and flag values in lower case.
Normalise(p) ==
    [p EXCEPT !.status = Lower(@), !.outputtolights = Lower(@),
              !.playlistlooping = Lower(@)]

\* C21: the letter case of the status and flag values makes no difference:
\* a successful cycle fires the events and picks the interval that the same
\* payload written in lower case would have caused in the same state.
CaseMakesNoDifference ==
    [][ SuccessfulCycle =>
          /\ events' = CycleEvents(Normalise(CyclePayload))
          /\ update_interval' = AppliedInterval(Normalise(CyclePayload))
      ]_vars

NextScheduledFailureIsSilent ==
    [][ next_request' = "failed" =>
          /\ status_result' # "raised"
          /\ last_update_success'
          /\ data'[1].x_next_scheduled = Unset
          /\ events' = CycleEvents(CyclePayload)
          /\ last_status' = CurStatus(CyclePayload)
          /\ last_playlist' = CyclePayload.playlist
          /\ last_playlist_id' = CyclePayload.playlistid
          /\ last_step' = CyclePayload.step
          /\ last_output' = CurOutput(CyclePayload)
          /\ last_playlist_loop' = CurLoop(CyclePayload)
          /\ last_schedule_id' = CurSchedId(CyclePayload)
      ]_vars

StartedWithoutNextScheduled ==
    /\ next_request = "failed"
    /\ data # Unset
    /\ data[1].x_next_scheduled = Unset
    /\ HasFired("playlist_started")
    /\ last_playlist = "B"
    /\ last_update_success

\* That the version changed in the cycle the step runs.
VersionChangedInCycle ==
    /\ CyclePayload.version # None
    /\ CyclePayload.version # last_version

\* C30 (as stated): a successful cycle asks for the playlist list exactly
\* when the list has never been fetched, its age exceeds the TTL, or the
\* version changed in that cycle.
ListQueryIff ==
    [][ SuccessfulCycle =>
          ( list_request' # "none" <=>
              \/ last_playlists = Unset
              \/ ( /\ last_playlists_ts # Unset
                   /\ now' - last_playlists_ts[1] > Options.lists_refresh_secs )
              \/ VersionChangedInCycle ) ]_vars

\* C30 (amended): the same, with a fourth case: the list is cached but its
\* timestamp is unset, because the fetch forced by an earlier version
\* change failed and none has succeeded since.
ListQueryIffOrPending ==
    [][ SuccessfulCycle =>
          ( list_request' # "none" <=>
              \/ last_playlists = Unset
              \/ ( /\ last_playlists_ts # Unset
                   /\ now' - last_playlists_ts[1] > Options.lists_refresh_secs )
              \/ VersionChangedInCycle
              \/ ( last_playlists # Unset /\ last_playlists_ts = Unset ) ) ]_vars

CachedListReused ==
    /\ status_result = "ok"
    /\ list_request = "none"
    /\ data # Unset
    /\ data[1].x_playlists = <<"A", "B">>
    /\ last_playlists_ts # Unset
    /\ now > last_playlists_ts[1]

\* The integer a decimal string stands for.
RECURSIVE DigitsValue(_)
DigitsValue(s) ==
    IF Len(s) = 0 THEN 0
    ELSE 10 * DigitsValue(SubSeq(s, 1, Len(s) - 1))
         + (CHOOSE d \in 0..9 : DigitChars[d + 1] = s[Len(s)])

IntOf(s) == IF s[1] = "-" THEN 0 - DigitsValue(Tail(s)) ELSE DigitsValue(s)

\* C26: set_volume sends min(100, max(0, v)), adjust_volume sends
\* min(100, max(-100, d)) and seek sends max(0, p): no volume outside
\* 0..100, no delta outside -100..100, no negative position.
WrappersClamp ==
    sent # NoRequest =>
        LET n == IntOf(sent.parameters) IN
        /\ sent.command = "Set volume to" =>
              n = Min(100, Max(0, sent.arg)) /\ n \in 0..100
        /\ sent.command = "Adjust volume by" =>
              n = Min(100, Max(0 - 100, sent.arg)) /\ n \in (0 - 100)..100
        /\ sent.command = "Set step position ms" =>
              n = Max(0, sent.arg) /\ n >= 0

VolumeBelowZeroSentAsZero ==
    /\ sent.command = "Set volume to"
    /\ sent.arg = 0 - 1
    /\ sent.parameters = <<"0">>
    /\ \E t \in Tasks : task[t].pc = "data_wait" /\ task[t].op = "command"

\* A step in which task t sends a query/command data request.
SendsDataRequest(t) == task'[t].dataReqs > task[t].dataReqs

\* C27: with a shared secret configured, no query/command data request is
\* sent while the session is logged out; a handshake that has failed ends
\* the call instead.
NoDataRequestWhileLoggedOut ==
    [][ \A t \in Tasks :
            (password # "" /\ SendsDataRequest(t)) =>
                /\ logged_in
                /\ task[t].loginRet # "False"
      ]_vars

\* C28: after a rejected cached credential, or with no cached IP, login
\* sends the invalid credential; it stores the IP the server reports and
\* then logs in with the hash of that IP and the secret; so with the right
\* secret and a server that answers, one login call returns success even
\* when the server's view of the client IP has changed.
HintedLoginFollowsServerIp ==
    \A t \in Tasks :
        LET r == task[t] IN
        /\ (r.pc = "hint_wait" =>
               /\ r.cred = BadCredential
               /\ (r.hadIp = "no" \/ ~r.sawOk))
        /\ (r.pc = "hinted_wait" =>
               /\ r.hint = "got"
               /\ server_seen_ip = srvIp
               /\ r.cred = Md5(srvIp, password))
        /\ (r.pc = "login_ret" /\ password = ServerPassword =>
               /\ r.loginRet = "True"
               /\ r.loginReqs <= 3
               /\ server_seen_ip = srvIp)

\* C28 witness: a login that began with a cached IP the server no longer
\* sees returned success through the hinted IP.
LoginSurvivedIpChange ==
    \E t \in Tasks :
        /\ task[t].pc = "login_ret"
        /\ task[t].hadIp = "yes"
        /\ task[t].hint = "got"
        /\ task[t].loginReqs = 3
        /\ task[t].loginRet = "True"
        /\ ipChanges > 0
        /\ server_seen_ip = srvIp

\* C29: with a shared secret, a first result "not logged in" makes the
\* client mark the session logged out and start a login handshake before
\* anything is resent; the second data request is sent only when that
\* handshake has returned, after at least one login request, and it is the
\* request that was sent first.
LoginBetweenRequestAndRetry ==
    [][ \A t \in Tasks :
            /\ (/\ password # ""
                /\ task[t].pc = "data_wait"
                /\ task'[t].firstRes = NOT_LOGGED_IN)
                   => /\ ~logged_in'
                      /\ task'[t].pc \in LoginWait \cup {"lock_wait"}
                      /\ task'[t].dataReqs = 1
            /\ (/\ password # ""
                /\ task[t].dataReqs = 1
                /\ task'[t].dataReqs = 2)
                   => /\ task[t].firstRes = NOT_LOGGED_IN
                      /\ task[t].pc = "login_ret"
                      /\ task[t].loginReqs >= 1
                      /\ task'[t].op = task[t].op
                      /\ sent' = sent
      ]_vars

\* C29 witness: a call refused for a lost session has its second request in
\* flight after a handshake that logged the client in again.
RetrySentAfterLogin ==
    \E t \in Tasks :
        /\ password = ServerPassword
        /\ task[t].pc = "data_wait2"
        /\ task[t].dataReqs = 2
        /\ task[t].firstRes = NOT_LOGGED_IN
        /\ logged_in

\* A step in which a login request of task t is answered "ok".
LoginSucceeds(t) ==
    /\ task[t].pc \in {"cached_wait", "hinted_wait"}
    /\ task'[t].pc = "login_ret"
    /\ task'[t].loginRet = "True"

\* C31: immediately after a login attempt succeeds the client's cached
\* playlist list is unset and its step-list cache is empty.
LoginSuccessClearsCaches ==
    [][ (\E t \in Tasks : LoginSucceeds(t)) =>
            /\ playlists' = None
            /\ steps_cache' = {}
            /\ logged_in'
      ]_vars

\* C31 witness: a step list stored by a call that has not yet been taken by
\* its caller is gone after another call's login succeeded.
StoredStepsClearedByLogin ==
    \E t, u \in Tasks :
        /\ task[t].pc = "login_ret"
        /\ task[t].loginRet = "True"
        /\ task[u].pc = "done"
        /\ task[u].op = "get_steps"
        /\ task[u].result = "ok"
        /\ steps_cache = {}

\* C32: when a "not logged in" result has invalidated the session, the
\* playlist list cached before it is not republished: unless the cycle that
\* met the invalidation fetched the list itself, the next successful cycle
\* fetches it again.
InvalidationRefetchesLists ==
    [][ (/\ status_result = NOT_LOGGED_IN
         /\ list_request = "none"
         /\ SuccessfulCycle)
            => list_request' # "none"
      ]_vars

\* C33: after a successful cycle the remembered edge state (status,
\* playlist, playlist id, step, output flag, loop flag, schedule id) is what
\* the cycle's status payload gives, and the published snapshot is that
\* payload with the cached playlist list and the fetch time injected.
EdgeStateIsCyclePayload ==
    status_result \in {"ok", NOT_LOGGED_IN} =>
        /\ data # Unset
        /\ LET p == data[1].payload IN
           /\ last_status = IF p.status \in {None, ""} THEN "idle" ELSE Lower(p.status)
           /\ last_playlist = p.playlist
           /\ last_playlist_id = p.playlistid
           /\ last_step = p.step
           /\ last_output = BoolStr(FlagOf(p.outputtolights))
           /\ last_playlist_loop = BoolStr(FlagOf(p.playlistlooping))
           /\ last_schedule_id = ActiveScheduleId(p)
        /\ data[1].x_playlists = IF last_playlists = Unset THEN <<>> ELSE last_playlists[1]
        /\ data[1].x_ts = now

\* C33 witness: a cycle that followed playlist A published playlist B with
\* the cached list, and remembers B.
PlaylistBRemembered ==
    /\ status_result = "ok"
    /\ data # Unset
    /\ data[1].payload.status = "playing"
    /\ data[1].payload.playlist = "B"
    /\ last_playlist = "B"
    /\ last_status = "playing"
    /\ data[1].x_playlists = <<"A", "B">>
    /\ \E i \in 1..Len(events) :
          events[i].name = "playlist_ended" /\ events[i].playlist = "A"

\* The place of an event in the order the claim gives.
Rank(n) ==
    CASE n = "version_changed"       -> 1
      [] n = "schedule_started"      -> 2
      [] n = "schedule_ended"        -> 3
      [] n = "playlist_ended"        -> 4
      [] n = "playlist_started"      -> 5
      [] n = "step_changed"          -> 6
      [] n = "output_toggled"        -> 7
      [] n = "playlist_loop_changed" -> 8

\* C34: the events of one cycle come in the fixed order version-changed,
\* schedule-started, schedule-ended, playlist-ended, playlist-started,
\* step-changed, output-toggled, playlist-loop-changed; on a playlist switch
\* the playlist-ended of the old playlist precedes the playlist-started of
\* the new one.
EventsInFixedOrder ==
    \A i, j \in 1..Len(events) :
        i < j => Rank(events[i].name) < Rank(events[j].name)

\* C34 witness: a cycle fired version-changed, then playlist-ended for B,
\* then playlist-started for A.
VersionThenEndedThenStarted ==
    \E i, j, k \in 1..Len(events) :
        /\ i < j /\ k = j + 1
        /\ events[i].name = "version_changed"
        /\ events[j].name = "playlist_ended" /\ events[j].playlist = "B"
        /\ events[k].name = "playlist_started" /\ events[k].playlist = "A"

\* That the events evs of a cycle leave playlist pl reported as ended: they
\* hold a playlist-ended for pl and no playlist-started for pl after it.
LeftEnded(evs, pl) ==
    \E i \in 1..Len(evs) :
        /\ evs[i].name = "playlist_ended"
        /\ evs[i].playlist = pl
        /\ \A j \in (i + 1)..Len(evs) :
              ~(evs[j].name = "playlist_started" /\ evs[j].playlist = pl)

\* C36: playlist-started and playlist-ended are paired: a playlist that the
\* previous cycle reported as ended is not reported as ended again by the
\* next successful cycle, which can fire no playlist-started before its
\* playlist-ended.
PlaylistNeverEndedTwice ==
    [][ SuccessfulCycle =>
          \A pl \in PlaylistValues \ {None} :
              LeftEnded(events, pl) =>
                  ~\E i \in 1..Len(events') :
                       /\ events'[i].name = "playlist_ended"
                       /\ events'[i].playlist = pl
      ]_vars

\* That the cached playlist list is due for a fetch: never fetched, its
\* timestamp reset by a version change, or older than the TTL.
Stale ==
    \/ last_playlists = Unset
    \/ last_playlists_ts = Unset
    \/ now - last_playlists_ts[1] > Options.lists_refresh_secs

HandshakePcs == LoginWait \cup {"lock_wait", "login_ret"}

\* C38: every query/command call ends after a bounded number of requests
\* even when the server answers "not logged in" and rejects every login: a
\* login sends at most three login requests, a call sends at most two data
\* requests and runs at most two handshakes, one before its first data
\* request and one between the first and the second.
CallsEndAfterBoundedRequests ==
    /\ [](\A t \in Tasks :
            LET r == task[t] IN
            /\ r.loginReqs <= 3
            /\ r.dataReqs <= 2
            /\ (r.pc \in HandshakePcs =>
                   r.dataReqs = IF r.phase = "pre" THEN 0 ELSE 1))
    /\ [][ \A t \in Tasks :
              (task[t].pc \notin HandshakePcs /\ task'[t].pc \in HandshakePcs)
                  => \/ task[t].pc = "idle" /\ task'[t].phase = "pre"
                     \/ task[t].pc = "data_wait" /\ task'[t].phase = "retry"
         ]_vars
    /\ \A t \in Tasks : (task[t].pc # "idle") ~> (task[t].pc = "done")

\* C38 witness: a call returned the second "not logged in" after two data
\* requests, its second handshake having used all three login requests.
RefusedCallEnded ==
    \E t \in Tasks :
        /\ task[t].pc = "done"
        /\ task[t].dataReqs = 2
        /\ task[t].result = NOT_LOGGED_IN
        /\ ~logged_in
        /\ server_seen_ip # None

\* No call is under way: every task is idle or has returned.
Settled == \A t \in Tasks : task[t].pc \in {"idle", "done"}

\* C39: concurrent session loss converges: with the right secret and a
\* server that answers, once the calls that were answered "not logged in"
\* have returned and no call is under way, the session flag is set and each
\* of them has returned the real result of its second request.
SessionLossConverges ==
    (password = ServerPassword /\ Settled) =>
        \A t \in Tasks :
            (IsDataCall(task[t]) /\ task[t].pc = "done"
               /\ task[t].firstRes = NOT_LOGGED_IN)
                => /\ logged_in
                   /\ task[t].dataReqs = 2
                   /\ task[t].result \in RealResults

\* C39 witness: two calls were both answered "not logged in" and both have
\* returned a real result; the flag is set.
BothCallsRecovered ==
    \E t, u \in Tasks :
        /\ t # u
        /\ password = ServerPassword
        /\ task[t].pc = "done" /\ task[t].firstRes = NOT_LOGGED_IN
        /\ task[u].pc = "done" /\ task[u].firstRes = NOT_LOGGED_IN
        /\ task[t].result \in RealResults
        /\ task[u].result \in RealResults
        /\ logged_in

\* C35: within a successful cycle every event is emitted before the cycle's
\* snapshot becomes the coordinator's data: the step that fires the events
\* leaves the data as the previous cycle published it, and the data changes
\* only afterwards, to the returned snapshot, in a step that fires nothing.
EventsBeforeSnapshot ==
    [][ /\ (pending = Unset /\ pending' # Unset) => data' = data
        /\ (data' # data) =>
               /\ pending # Unset
               /\ data' = pending
               /\ events' = events
      ]_vars

\* C35 witness: playlist-started for B has fired while the coordinator's
\* data still is the snapshot of the cycle before, which names playlist A.
StartedFiredOverOldSnapshot ==
    /\ pending # Unset
    /\ data # Unset
    /\ data[1].payload.playlist = "A"
    /\ pending[1].payload.playlist = "B"
    /\ \E i \in 1..Len(events) :
          events[i].name = "playlist_started" /\ events[i].playlist = "B"

\* A step in which task t starts a call into the client.
StartsCall(t) == task[t].pc = "idle" /\ task'[t].pc # "idle"

==============================================================================
